---- MODULE Spec2Model ----
(***************************************************************************)
(* Model of tractodata's filename label codec (tractodata/io/utils.py).    *)
(* Strings are sequences of one-character strings, so that the regular     *)
(* expressions, the substring tests and the root extraction are computed   *)
(* character by character as the Python code computes them.                *)
(***************************************************************************)
EXTENDS Integers, Sequences, FiniteSets, TLC

VARIABLES pc, fname, fnames, label, value, has_period, result,
          fname_shortlist, idx,
          possible_subseq, seq, find, data, substr, lcs_i, lcs_j,
          bundle_name, hemisphere, endpoint, key,
          local_fnames, hash_list, files, disk, fetch_i, all_skip,
          filename, stored_hash, downloaded, disk0, clean, after_success,
          calls,
          reader, bundle_name_arg, hemisphere_name_arg, dataset_fnames,
          fnames_shortlist, read_i, bundles,
          permuted, result_permuted, strip_p, strip_ids, strip_s, remainders,
          threads, locals

\* the arguments and locals of the subsequence miner
\* (lcs_i, lcs_j: the loop variables i and j of get_longest_common_subseq)
minerVars == <<possible_subseq, seq, find, data, substr, lcs_i, lcs_j>>

\* the arguments and the local of the key builders of fetcher.py
keyVars == <<bundle_name, hemisphere, endpoint, key>>

\* the state of the dataset layer (tractodata/io/fetcher.py)
\* a fetcher made by _make_fetcher (local_fnames, hash_list), the locals of
\* fetch_data (files, fetch_i: the position of `for f in files`, all_skip),
\* the arguments of check_hash (filename, stored_hash) and the target
\* folder (disk: the content of each file, 0 when it does not exist)
fetchVars == <<local_fnames, hash_list, files, disk, fetch_i, all_skip,
               filename, stored_hash>>

\* the record of a fetch_data call: the files it downloaded, the folder as
\* the call found it, whether the folder is as a returned call left it
\* (clean), whether it was so when the call began (after_success), and
\* the number of calls so far
fetchLog == <<downloaded, disk0, clean, after_success, calls>>

\* a call of read_dataset_bundling or read_dataset_bundle_masks (reader):
\* its arguments bundle_name and hemisphere_name, the list get_fnames
\* gave, the locals fnames_shortlist and bundles (bundle_masks), and the
\* position of `for fname in fnames_shortlist`
readVars == <<reader, bundle_name_arg, hemisphere_name_arg, dataset_fnames,
              fnames_shortlist, read_i, bundles>>

\* a collection in another order and the result on it; a batch of strings
\* strip_p + strip_ids[k] + strip_s and what is left of them after the
\* first removal
batchVars == <<permuted, result_permuted, strip_p, strip_ids, strip_s,
               remainders>>

\* the calls of concurrent callers: for every caller the operation it
\* calls, its position in it, its loop variables, its result and the
\* result of its previous call (threads); and the frames that hold the
\* local lists of the calls (locals)
concVars == <<threads, locals>>

fetcherVars == <<keyVars, fetchVars, fetchLog, readVars, batchVars,
                 concVars>>

vars == <<pc, fname, fnames, label, value, has_period, result,
          fname_shortlist, idx, minerVars, fetcherVars>>

(***************************************************************************)
(* Module-level string constants of utils.py.                              *)
(***************************************************************************)
bundle_label == <<"s", "u", "b", "s", "e", "t">>
discrete_segmentation_label == <<"d", "s", "e", "g">>
probabilistic_segmentation_label == <<"p", "r", "o", "b", "s", "e", "g">>
endpoint_label == <<"p", "a", "r", "t">>
hemisphere_label == <<"h", "e", "m", "i">>
surface_label == <<"s", "u", "r", "f">>
general_label == <<"l", "a", "b", "e", "l">>
label_value_separator == <<"-">>
label_value_alt_separator == <<".">>

\* class Label(enum.Enum): the members, named by their values.
Label == {"bundle", "endpoint", "hemisphere", "tissue", "surface"}

\* class Endpoint(enum.Enum)
Endpoint_HEAD == <<"h", "e", "a", "d">>
Endpoint_TAIL == <<"t", "a", "i", "l">>
\* class Hemisphere(enum.Enum)
Hemisphere_LEFT == <<"L">>
Hemisphere_RIGHT == <<"R">>
\* class Tissue(enum.Enum)
Tissue_CSF == <<"C", "S", "F">>
Tissue_GM == <<"G", "M">>
Tissue_WM == <<"W", "M">>
\* class Surface(enum.Enum)
Surface_PIAL == <<"p", "i", "a", "l">>
Surface_WM == <<"w", "m">>

(***************************************************************************)
(* Python string primitives.                                               *)
(***************************************************************************)
\* pat occurs in s at (1-based) position p: s[p-1 : p-1+len(pat)] == pat
IsAt(s, p, pat) ==
    /\ p >= 1
    /\ p + Len(pat) - 1 <= Len(s)
    /\ \A i \in 1..Len(pat) : s[p + i - 1] = pat[i]

\* Python's `pat in s` for strings
StrIn(pat, s) == \E p \in 1..(Len(s) - Len(pat) + 1) : IsAt(s, p, pat)

\* the regular expression atom `.`: any character but a newline
Dot(c) == c # "\n"

\* no basename taken: the whole path is examined
basename_whole_path(p) == p

\* os.path.basename: what follows the last "/"
basename(p) ==
    LET slashes == {i \in 1..Len(p) : p[i] = "/"}
        last == IF slashes = {} THEN 0
                ELSE CHOOSE i \in slashes : \A k \in slashes : k <= i
    IN SubSeq(p, last + 1, Len(p))

\* os.path.splitext(b)[0]: b without what follows its last dot, the dot
\* included; leading dots do not start an extension
splitext_root(b) ==
    LET dots == {i \in 1..Len(b) : b[i] = "."}
        lastDot == IF dots = {} THEN 0
                   ELSE CHOOSE i \in dots : \A k \in dots : k <= i
    IN IF lastDot > 0 /\ \E k \in 1..(lastDot - 1) : b[k] # "."
       THEN SubSeq(b, 1, lastDot - 1)
       ELSE b

\* b.rsplit(".", 1)[0]: b up to its last dot
split_first_at_last_dot(b) ==
    LET dots == {i \in 1..Len(b) : b[i] = "."}
        lastDot == IF dots = {} THEN Len(b) + 1
                   ELSE CHOOSE i \in dots : \A k \in dots : k <= i
    IN SubSeq(b, 1, lastDot - 1)

\* b.split(".")[0]: b up to its first dot
split_first(b) ==
    LET dots == {i \in 1..Len(b) : b[i] = "."}
        firstDot == IF dots = {} THEN Len(b) + 1
                    ELSE CHOOSE i \in dots : \A k \in dots : i <= k
    IN SubSeq(b, 1, firstDot - 1)

\* has_period ignored: the basename is always cut at its first dot
get_filename_root_ignore_has_period(f, hp) == split_first(basename(f))

get_filename_root(f, hp) ==
    IF hp THEN splitext_root(basename(f)) ELSE split_first(basename(f))

(***************************************************************************)
(* The regular expressions.  Each operator gives, for a start position p   *)
(* of the root s (1-based, p = Len(s)+1 is the end of s), the position     *)
(* one past the end of the match of the pattern anchored at p, or 0 when   *)
(* the pattern does not match at p.  Alternatives are tried left to right  *)
(* as the backtracking matcher does.                                       *)
(***************************************************************************)
NoEnd == 0

\* (?<=pat) at p
LookBehind(s, p, pat) == IsAt(s, p - Len(pat), pat)

\* the bundle pattern with a greedy quantifier, "(?<=_subset-)(.*)(?=_)":
\* the value runs to the last "_" of the root
_build_bundle_regex_greedy(s, p) ==
    LET unders == {e \in p..Len(s) : s[e] = "_" /\ \A k \in p..(e - 1) : Dot(s[k])}
    IN IF /\ LookBehind(s, p, <<"_">> \o bundle_label \o label_value_separator)
          /\ unders # {}
       THEN CHOOSE e \in unders : \A k \in unders : k <= e
       ELSE NoEnd

\* "(?<=_subset-)(.*?)(?=_)"
_build_bundle_regex(s, p) ==
    LET unders == {e \in p..Len(s) : s[e] = "_"}
        e0 == CHOOSE e \in unders : \A k \in unders : e <= k
    IN IF /\ LookBehind(s, p, <<"_">> \o bundle_label \o label_value_separator)
          /\ unders # {}
          /\ \A k \in p..(e0 - 1) : Dot(s[k])
       THEN e0
       ELSE NoEnd

\* the endpoint pattern with the end of the root accepted after the
\* value, "(?<=_part-)(head|tail)(?=_|$)"
_build_endpoint_regex_eos(s, p) ==
    IF LookBehind(s, p, <<"_">> \o endpoint_label \o label_value_separator)
    THEN IF IsAt(s, p, Endpoint_HEAD)
            /\ \/ IsAt(s, p + Len(Endpoint_HEAD), <<"_">>)
               \/ p + Len(Endpoint_HEAD) = Len(s) + 1
         THEN p + Len(Endpoint_HEAD)
         ELSE IF IsAt(s, p, Endpoint_TAIL)
                 /\ \/ IsAt(s, p + Len(Endpoint_TAIL), <<"_">>)
                    \/ p + Len(Endpoint_TAIL) = Len(s) + 1
              THEN p + Len(Endpoint_TAIL)
              ELSE NoEnd
    ELSE NoEnd

\* "(?<=_part-)(head|tail)(?=_)"
_build_endpoint_regex(s, p) ==
    IF LookBehind(s, p, <<"_">> \o endpoint_label \o label_value_separator)
    THEN IF IsAt(s, p, Endpoint_HEAD)
            /\ IsAt(s, p + Len(Endpoint_HEAD), <<"_">>)
         THEN p + Len(Endpoint_HEAD)
         ELSE IF IsAt(s, p, Endpoint_TAIL)
                 /\ IsAt(s, p + Len(Endpoint_TAIL), <<"_">>)
              THEN p + Len(Endpoint_TAIL)
              ELSE NoEnd
    ELSE NoEnd

\* the hemisphere pattern without its character class, "(?<=_hemi-).(?=_)"
_build_hemisphere_regex_anychar(s, p) ==
    IF /\ LookBehind(s, p, <<"_">> \o hemisphere_label \o label_value_separator)
       /\ p <= Len(s)
       /\ Dot(s[p])
       /\ IsAt(s, p + 1, <<"_">>)
    THEN p + 1
    ELSE NoEnd

\* "(?<=_hemi-)[LR]{1}(?=_)"
_build_hemisphere_regex(s, p) ==
    IF /\ LookBehind(s, p, <<"_">> \o hemisphere_label \o label_value_separator)
       /\ p <= Len(s)
       /\ <<s[p]>> \in {Hemisphere_LEFT, Hemisphere_RIGHT}
       /\ IsAt(s, p + 1, <<"_">>)
    THEN p + 1
    ELSE NoEnd

\* "(?<=_)pial|wm(?=.surf)": the alternation binds weaker than the
\* lookarounds, so the alternatives are "(?<=_)pial" and "wm(?=.surf)"
_build_surface_regex(s, p) ==
    IF LookBehind(s, p, <<"_">>) /\ IsAt(s, p, Surface_PIAL)
    THEN p + Len(Surface_PIAL)
    ELSE IF /\ IsAt(s, p, Surface_WM)
            /\ p + Len(Surface_WM) <= Len(s)
            /\ Dot(s[p + Len(Surface_WM)])
            /\ IsAt(s, p + Len(Surface_WM) + 1, surface_label)
         THEN p + Len(Surface_WM)
         ELSE NoEnd

\* "(?<=_label-)CSF|GM|WM(?=_(dseg|probseg))": three alternatives,
\* "(?<=_label-)CSF", "GM" and "WM(?=_(dseg|probseg))"
_build_tissue_segmentation_regex(s, p) ==
    IF /\ LookBehind(s, p, <<"_">> \o general_label \o label_value_separator)
       /\ IsAt(s, p, Tissue_CSF)
    THEN p + Len(Tissue_CSF)
    ELSE IF IsAt(s, p, Tissue_GM)
         THEN p + Len(Tissue_GM)
         ELSE IF /\ IsAt(s, p, Tissue_WM)
                 /\ \/ IsAt(s, p + Len(Tissue_WM),
                            <<"_">> \o discrete_segmentation_label)
                    \/ IsAt(s, p + Len(Tissue_WM),
                            <<"_">> \o probabilistic_segmentation_label)
              THEN p + Len(Tissue_WM)
              ELSE NoEnd

\* the if/elif chain of get_label_value_from_filename; only called for a
\* member of Label
regex_end(lab, s, p) ==
    CASE lab = "bundle" -> _build_bundle_regex(s, p)
      [] lab = "endpoint" -> _build_endpoint_regex(s, p)
      [] lab = "hemisphere" -> _build_hemisphere_regex(s, p)
      [] lab = "surface" -> _build_surface_regex(s, p)
      [] lab = "tissue" -> _build_tissue_segmentation_regex(s, p)

\* re.search(regex, s): the match at the leftmost start position, as the
\* pair of its bounds, or NoMatch (Python's None)
NoMatch == [start |-> 0, end |-> 0]

re_search(lab, s) ==
    LET starts == {p \in 1..(Len(s) + 1) : regex_end(lab, s, p) # NoEnd}
        p0 == CHOOSE p \in starts : \A k \in starts : p <= k
    IN IF starts = {} THEN NoMatch
       ELSE [start |-> p0, end |-> regex_end(lab, s, p0)]

\* m.group(0)
group0(s, m) == SubSeq(s, m.start, m.end - 1)

(***************************************************************************)
(* Outcomes of a call: a returned string, the returned None, a returned    *)
(* list, or the raised exception.                                          *)
(***************************************************************************)
Pending == [tag |-> "pending", val |-> <<>>]
None == [tag |-> "None", val |-> <<>>]
Str(v) == [tag |-> "str", val |-> v]
List(l) == [tag |-> "list", val |-> l]
\* raise LabelError(...)
LabelError == [tag |-> "LabelError", val |-> <<>>]

\* a returned bool
PyTrue == [tag |-> "True", val |-> <<>>]
PyFalse == [tag |-> "False", val |-> <<>>]
Bool(b) == IF b THEN PyTrue ELSE PyFalse

\* the miner is not running
MinerIdle ==
    /\ possible_subseq = <<>>
    /\ seq = <<>>
    /\ find = <<>>
    /\ data = <<>>
    /\ substr = Pending
    /\ lcs_i = 0
    /\ lcs_j = 0

\* `if m.group(0):` in place of `if m:`: an empty match counts as no match
match_truthy_group(s, m) == m # NoMatch /\ group0(s, m) # <<>>

\* `if m:` of get_label_value_from_filename: a match object is truthy
\* whatever it matched
match_truthy(s, m) == m # NoMatch

\* the chain without its final else: an unknown label finds nothing
get_label_value_from_filename_noraise(f, lab, hp) ==
    LET fname_root == get_filename_root(f, hp)
    IN IF lab \in Label
       THEN LET m == re_search(lab, fname_root)
            IN IF m # NoMatch THEN Str(group0(fname_root, m)) ELSE None
       ELSE None

get_label_value_from_filename(f, lab, hp) ==
    LET fname_root == get_filename_root(f, hp)
    IN IF lab \in Label
       THEN LET m == re_search(lab, fname_root)
            IN IF match_truthy(fname_root, m)
               THEN Str(group0(fname_root, m))
               ELSE None
       ELSE LabelError

(***************************************************************************)
(* Inputs.  A filename is the concatenation of at most MaxSegs segments    *)
(* of the vocabulary of the label kind asked for: the kind's marker, its   *)
(* values, near misses of both, and the path and extension separators.     *)
(***************************************************************************)
MaxSegs == 4

\* what callers may pass as `label`: the members of Label, and objects
\* that are no member (the two kinds the tests name Label.DTI and
\* Label.EXCLUDEINCLUDE, and any other object)
NonMembers == {"dti", "excludeinclude", "other"}
LabelArgs == Label \cup NonMembers

Underscore == <<"_">>
Marker(lab) == Underscore \o lab \o label_value_separator

Vocab(lab) ==
    CASE lab = "bundle" ->
           {Marker(bundle_label), Underscore, <<"C", "S">>, <<"T">>,
            <<".">>, <<"/">>}
      [] lab = "endpoint" ->
           {Marker(endpoint_label), Underscore, Endpoint_HEAD, Endpoint_TAIL,
            <<"h", "e">>, <<".">>, <<"/">>}
      [] lab = "hemisphere" ->
           {Marker(hemisphere_label), Underscore, Hemisphere_LEFT,
            Hemisphere_RIGHT, <<"C">>, <<".">>, <<"/">>}
      [] lab = "tissue" ->
           {Marker(general_label), Tissue_CSF, Tissue_GM, Tissue_WM,
            Underscore \o discrete_segmentation_label,
            Underscore \o probabilistic_segmentation_label,
            <<"_", "s", "e", "g">>, <<".">>}
      [] lab = "surface" ->
           {Underscore, Surface_PIAL, Surface_WM,
            label_value_alt_separator \o surface_label,
            <<".", "v", "t", "k">>, <<"x">>, <<"/">>}
      [] OTHER ->
           {Marker(bundle_label), Marker(general_label), Underscore,
            <<"F", "A">>, <<".">>}

RECURSIVE Concats(_, _)
Concats(segs, n) ==
    IF n = 0 THEN {<<>>}
    ELSE LET shorter == Concats(segs, n - 1)
         IN shorter \cup {c \o g : c \in shorter, g \in segs}

Filenames(lab) == Concats(Vocab(lab), MaxSegs)

\* no key is being built
KeyIdle ==
    /\ bundle_name = None
    /\ hemisphere = None
    /\ endpoint = None
    /\ key = Pending

\* no fetcher exists
FetchIdle ==
    /\ local_fnames = <<>>
    /\ hash_list = None
    /\ files = <<>>
    /\ disk = <<>>
    /\ fetch_i = 0
    /\ all_skip = TRUE
    /\ filename = 0
    /\ stored_hash = None
    /\ downloaded = {}
    /\ disk0 = <<>>
    /\ clean = FALSE
    /\ after_success = FALSE
    /\ calls = 0

\* no dataset is being read
ReadIdle ==
    /\ reader = ""
    /\ bundle_name_arg = None
    /\ hemisphere_name_arg = None
    /\ dataset_fnames = <<>>
    /\ fnames_shortlist = <<>>
    /\ read_i = 0
    /\ bundles = {}

\* no batch is being mined
BatchIdle ==
    /\ permuted = <<>>
    /\ result_permuted = Pending
    /\ strip_p = <<>>
    /\ strip_ids = <<>>
    /\ strip_s = <<>>
    /\ remainders = <<>>

\* no concurrent callers
ConcIdle ==
    /\ threads = <<>>
    /\ locals = <<>>

\* the dataset layer is not running
FetcherIdle ==
    /\ KeyIdle
    /\ FetchIdle
    /\ ReadIdle
    /\ BatchIdle
    /\ ConcIdle

(***************************************************************************)
(* Specification of one call of get_label_value_from_filename.             *)
(***************************************************************************)
InitExtract ==
    /\ pc = "call"
    /\ label \in LabelArgs
    /\ fname \in Filenames(label)
    /\ has_period \in BOOLEAN
    /\ result = Pending
    /\ fnames = <<>>
    /\ value = <<>>
    /\ fname_shortlist = <<>>
    /\ idx = 0
    /\ MinerIdle
    /\ FetcherIdle

Extract ==
    /\ pc = "call"
    /\ result' = get_label_value_from_filename(fname, label, has_period)
    /\ pc' = "done"
    /\ UNCHANGED minerVars
    /\ UNCHANGED fetcherVars
    /\ UNCHANGED <<fname, fnames, label, value, has_period,
                   fname_shortlist, idx>>

NextExtract == Extract

SpecExtract == InitExtract /\ [][NextExtract]_vars

\* the root the call of the current state examines
Root == get_filename_root(fname, has_period)

(***************************************************************************)
(* Properties of get_label_value_from_filename (SpecExtract).              *)
(***************************************************************************)
Returned == pc = "done"

\* C2: with kind Hemisphere the call returns L, R or None, with kind
\* Endpoint head, tail or None; a value is returned only if the root holds
\* `_hemi-<value>_` (`_part-<value>_`), so a value outside the closed set
\* after the marker (hemi-C, part-he) and a root without the marker give
\* None.
C2_ClosedSetOrAbsent ==
    /\ (Returned /\ label = "hemisphere") =>
          /\ result \in {None, Str(Hemisphere_LEFT), Str(Hemisphere_RIGHT)}
          /\ result # None =>
               StrIn(Marker(hemisphere_label) \o result.val \o Underscore, Root)
          /\ ~StrIn(Marker(hemisphere_label), Root) => result = None
    /\ (Returned /\ label = "endpoint") =>
          /\ result \in {None, Str(Endpoint_HEAD), Str(Endpoint_TAIL)}
          /\ result # None =>
               StrIn(Marker(endpoint_label) \o result.val \o Underscore, Root)
          /\ ~StrIn(Marker(endpoint_label), Root) => result = None

\* a root with `_hemi-C_` and no `_hemi-L_`, `_hemi-R_` gave None
C2_Witness ==
    /\ Returned /\ label = "hemisphere"
    /\ StrIn(Marker(hemisphere_label) \o <<"C">> \o Underscore, Root)
    /\ result = None

Tissues == {Tissue_CSF, Tissue_GM, Tissue_WM}
Surfaces == {Surface_PIAL, Surface_WM}

\* C3: with kind Tissue a value T is returned only if T is CSF, GM or WM
\* and the root holds `_label-T` immediately followed by `_dseg` or
\* `_probseg`; every other root gives None.
C3_TissueBeforeSegmentationSuffix ==
    (Returned /\ label = "tissue") =>
        \/ result = None
        \/ /\ result.tag = "str"
           /\ result.val \in Tissues
           /\ \/ StrIn(Marker(general_label) \o result.val \o Underscore
                         \o discrete_segmentation_label, Root)
              \/ StrIn(Marker(general_label) \o result.val \o Underscore
                         \o probabilistic_segmentation_label, Root)

\* C4: with kind Surface a value t is returned only if t is pial or wm and
\* the root holds `_t` immediately followed by `.surf`; every other root,
\* one that lost its `.surf` to has_period = False included, gives None.
C4_SurfaceBeforeSurfMarker ==
    (Returned /\ label = "surface") =>
        \/ result = None
        \/ /\ result.tag = "str"
           /\ result.val \in Surfaces
           /\ StrIn(Underscore \o result.val \o label_value_alt_separator
                      \o surface_label, Root)

\* positions of the root where the `_subset-` marker starts
BundleMarkerStarts(s) ==
    {p \in 1..Len(s) : IsAt(s, p, Marker(bundle_label))}

\* positions of "_" in s at or after position a
UnderscoresFrom(s, a) == {q \in a..Len(s) : s[q] = "_"}

Min(S) == CHOOSE x \in S : \A y \in S : x <= y

\* the text strictly between the first `_subset-` marker and the next "_"
\* after it, None when no marker is followed by a "_"
TextAfterFirstBundleMarker(s) ==
    LET followed == {p \in BundleMarkerStarts(s) :
                        UnderscoresFrom(s, p + Len(Marker(bundle_label))) # {}}
        a == Min(BundleMarkerStarts(s)) + Len(Marker(bundle_label))
    IN IF followed = {} THEN None
       ELSE Str(SubSeq(s, a, Min(UnderscoresFrom(s, a)) - 1))

\* C5: with kind Bundle, a root that holds `_subset-` followed later by "_"
\* gives exactly the characters between the first `_subset-` and the next
\* "_" after it; every other root gives None.
C5_BundleBetweenMarkerAndUnderscore ==
    (Returned /\ label = "bundle") =>
        result = TextAfterFirstBundleMarker(Root)

\* `_subset-CS_` with a further "_" behind it gave CS
C5_Witness ==
    /\ Returned /\ label = "bundle"
    /\ result = Str(<<"C", "S">>)
    /\ Cardinality(UnderscoresFrom(Root,
           Min(BundleMarkerStarts(Root)) + Len(Marker(bundle_label)))) >= 2

\* the kind's pattern matches nowhere in the root
NoMatchAnywhere(lab, s) ==
    \A p \in 1..(Len(s) + 1) : regex_end(lab, s, p) = NoEnd

\* C7: for a member of Label the call never raises, it returns a string or
\* None; None is returned exactly when the pattern does not match the
\* root, and the empty bundle name of `_subset-_` is returned as the empty
\* string, which is not None.
C7_AbsentOnlyOnMismatch ==
    (Returned /\ label \in Label) =>
        /\ result.tag \in {"str", "None"}
        /\ (result = None) <=> NoMatchAnywhere(label, Root)
        /\ ( /\ label = "bundle"
             /\ BundleMarkerStarts(Root) # {}
             /\ IsAt(Root, Min(BundleMarkerStarts(Root))
                             + Len(Marker(bundle_label)), Underscore) )
           => (result = Str(<<>>) /\ result # None)

\* the first marker of the root is `_subset-_` and the empty string came
\* back
C7_Witness ==
    /\ Returned /\ label = "bundle"
    /\ StrIn(Marker(bundle_label) \o Underscore, Root)
    /\ result = Str(<<>>)

\* C8: for a label that is no member of Label the call raises LabelError,
\* whatever the filename and has_period; it returns neither a value nor
\* None.
C8_UnknownLabelRaises ==
    (Returned /\ label \notin Label) => result = LabelError

\* an unknown label with a filename that carries a label token, for both
\* has_period settings
C8_Witness ==
    /\ Returned /\ label = "other" /\ has_period
    /\ StrIn(Marker(bundle_label) \o <<"F", "A">> \o Underscore, Root)
    /\ result = LabelError

\* C10: DTIMap and ExcludeIncludeMap are accepted kinds: extraction with
\* them returns the value after `_label-` and never raises the
\* unknown-label error.
C10_SevenKindsAccepted ==
    (Returned /\ label \in {"dti", "excludeinclude"}) =>
        /\ result # LabelError
        /\ StrIn(Marker(general_label) \o <<"F", "A">>, Root) =>
             result.tag = "str"

(***************************************************************************)
(* filter_filenames_on_value and its helpers.                              *)
(***************************************************************************)
\* the pair built without the alternative form: `label-value` also when
\* use_alt is set
_build_label_value_pair_noalt(lab, val, use_alt) ==
    lab \o label_value_separator \o val

\* the pair built in the alternative form `value.label` for every kind
_build_label_value_pair_alt(lab, val, use_alt) ==
    val \o label_value_alt_separator \o lab

\* the pair reduced to the bare value
_build_label_value_pair_bare(lab, val, use_alt) == val

_build_label_value_pair(lab, val, use_alt) ==
    IF ~use_alt
    THEN lab \o label_value_separator \o val
    ELSE val \o label_value_alt_separator \o lab

\* list(filter(lambda item: any(x in item for x in secondary_list),
\*             primary_list))
filter_list_on_list(primary_list, secondary_list) ==
    LET keep(item) == \E i \in 1..Len(secondary_list) :
                          StrIn(secondary_list[i], item)
    IN SelectSeq(primary_list, keep)

\* the if/elif chain of the loop body; only called for a member of Label
filter_label_value(lab, v) ==
    CASE lab = "bundle" -> _build_label_value_pair(bundle_label, v, FALSE)
      [] lab = "endpoint" -> _build_label_value_pair(endpoint_label, v, FALSE)
      [] lab = "hemisphere" ->
           _build_label_value_pair(hemisphere_label, v, FALSE)
      [] lab = "surface" -> _build_label_value_pair(surface_label, v, TRUE)
      [] lab = "tissue" -> _build_label_value_pair(general_label, v, FALSE)

(***************************************************************************)
(* Inputs of the filter: lists of at most MaxFnames filenames of a pool    *)
(* that holds, for every kind, names with one token, with two tokens, with *)
(* a value that extends or embeds a requested one, with the token in a     *)
(* directory, and with no token; and lists of at most MaxValues values of  *)
(* the kind.                                                               *)
(***************************************************************************)
MaxFnames == 2
MaxValues == 2

CS == <<"C", "S">>
CST == <<"C", "S", "T">>
FA == <<"F", "A">>
Dash == label_value_separator
VtkExt == <<".", "v", "t", "k">>

FilterPool ==
    { \* _subset-CS_ and _subset-CST_
      Marker(bundle_label) \o CS \o Underscore,
      Marker(bundle_label) \o CST \o Underscore,
      \* _hemi-L_subset-CS_ and _hemi-R_subset-CST_
      Marker(hemisphere_label) \o Hemisphere_LEFT
          \o Marker(bundle_label) \o CS \o Underscore,
      Marker(hemisphere_label) \o Hemisphere_RIGHT
          \o Marker(bundle_label) \o CST \o Underscore,
      \* subset-CS/_hemi-L_hemi-R_
      bundle_label \o Dash \o CS \o <<"/">>
          \o Marker(hemisphere_label) \o Hemisphere_LEFT
          \o Marker(hemisphere_label) \o Hemisphere_RIGHT \o Underscore,
      \* _part-head_ and _part-tail_part-head_
      Marker(endpoint_label) \o Endpoint_HEAD \o Underscore,
      Marker(endpoint_label) \o Endpoint_TAIL
          \o Marker(endpoint_label) \o Endpoint_HEAD \o Underscore,
      \* _label-WM_dseg, _label-nWM_dseg and _label-GM_probseg
      Marker(general_label) \o Tissue_WM \o Underscore
          \o discrete_segmentation_label,
      Marker(general_label) \o <<"n">> \o Tissue_WM \o Underscore
          \o discrete_segmentation_label,
      Marker(general_label) \o Tissue_GM \o Underscore
          \o probabilistic_segmentation_label,
      \* _pial.surf.vtk and _wm.surf.vtk
      Underscore \o Surface_PIAL \o label_value_alt_separator
          \o surface_label \o VtkExt,
      Underscore \o Surface_WM \o label_value_alt_separator
          \o surface_label \o VtkExt,
      \* x.vtk
      <<"x">> \o VtkExt }

FilterValues(lab) ==
    CASE lab = "bundle" -> {CS, CST, <<"T">>}
      [] lab = "endpoint" -> {Endpoint_HEAD, Endpoint_TAIL}
      [] lab = "hemisphere" -> {Hemisphere_LEFT, Hemisphere_RIGHT}
      [] lab = "tissue" -> {Tissue_WM, Tissue_GM}
      [] lab = "surface" -> {Surface_PIAL, Surface_WM}
      [] OTHER -> {FA, Tissue_WM}

SeqsUpTo(S, n) == UNION {[1..k -> S] : k \in 0..n}

(***************************************************************************)
(* Specification of one call of filter_filenames_on_value: the entry, one  *)
(* step per iteration of the loop over `value`, and the return.            *)
(***************************************************************************)
InitFilter ==
    /\ pc = "filter_call"
    /\ label \in LabelArgs
    /\ fnames \in SeqsUpTo(FilterPool, MaxFnames)
    /\ value \in SeqsUpTo(FilterValues(label), MaxValues)
    /\ fname = <<>>
    /\ has_period = FALSE
    /\ result = Pending
    /\ fname_shortlist = <<>>
    /\ idx = 0
    /\ MinerIdle
    /\ FetcherIdle

\* fname_shortlist = []
filter_enter ==
    /\ pc = "filter_call"
    /\ fname_shortlist' = <<>>
    /\ idx' = 1
    /\ pc' = "filter_loop"
    /\ UNCHANGED minerVars
    /\ UNCHANGED fetcherVars
    /\ UNCHANGED <<fname, fnames, label, value, has_period, result>>

\* one iteration of `for _value in value` with a known label
filter_iter ==
    /\ pc = "filter_loop"
    /\ idx <= Len(value)
    /\ label \in Label
    /\ LET label_value == filter_label_value(label, value[idx])
           shortlist == filter_list_on_list(fnames, <<label_value>>)
       IN fname_shortlist' = fname_shortlist \o shortlist
    /\ idx' = idx + 1
    /\ UNCHANGED minerVars
    /\ UNCHANGED fetcherVars
    /\ UNCHANGED <<pc, fname, fnames, label, value, has_period, result>>

\* the else branch of the iteration: raise LabelError
filter_raise ==
    /\ pc = "filter_loop"
    /\ idx <= Len(value)
    /\ label \notin Label
    /\ result' = LabelError
    /\ pc' = "filter_done"
    /\ UNCHANGED minerVars
    /\ UNCHANGED fetcherVars
    /\ UNCHANGED <<fname, fnames, label, value, has_period,
                   fname_shortlist, idx>>

\* return fname_shortlist
filter_return ==
    /\ pc = "filter_loop"
    /\ idx > Len(value)
    /\ result' = List(fname_shortlist)
    /\ pc' = "filter_done"
    /\ UNCHANGED minerVars
    /\ UNCHANGED fetcherVars
    /\ UNCHANGED <<fname, fnames, label, value, has_period,
                   fname_shortlist, idx>>

NextFilter == filter_enter \/ filter_iter \/ filter_raise \/ filter_return

SpecFilter == InitFilter /\ [][NextFilter]_vars

(***************************************************************************)
(* Properties of filter_filenames_on_value (SpecFilter).                   *)
(***************************************************************************)
Filtered == pc = "filter_done"

\* the token of a value: `<marker>-<value>`, `<value>.surf` for Surface
TokenText(lab) ==
    CASE lab = "bundle" -> <<"s", "u", "b", "s", "e", "t">>
      [] lab = "endpoint" -> <<"p", "a", "r", "t">>
      [] lab = "hemisphere" -> <<"h", "e", "m", "i">>
      [] lab = "tissue" -> <<"l", "a", "b", "e", "l">>
      [] lab = "surface" -> <<"s", "u", "r", "f">>

Token(lab, v) ==
    IF lab = "surface" THEN v \o <<".">> \o TokenText(lab)
    ELSE TokenText(lab) \o <<"-">> \o v

\* the filenames of fs that contain tok, in the order of fs
RECURSIVE Containing(_, _)
Containing(fs, tok) ==
    IF fs = <<>> THEN <<>>
    ELSE (IF StrIn(tok, Head(fs)) THEN <<Head(fs)>> ELSE <<>>)
            \o Containing(Tail(fs), tok)

\* the concatenation, over the values in the order given, of the
\* filenames that contain the value's token
RECURSIVE PerValueConcat(_, _, _)
PerValueConcat(fs, lab, vs) ==
    IF vs = <<>> THEN <<>>
    ELSE Containing(fs, Token(lab, Head(vs)))
            \o PerValueConcat(fs, lab, Tail(vs))

\* C1: for a member of Label the call returns, without raising, the
\* concatenation over the values in the order given of the sub-list of
\* fnames that contain the value's token: the order of fnames is kept
\* within a value, a filename is repeated once per matching value, and
\* the list is empty when no filename contains a token.
C1_PerValueConcatenation ==
    (Filtered /\ label \in Label) =>
        /\ result.tag = "list"
        /\ result.val = PerValueConcat(fnames, label, value)
        /\ (\A i \in 1..Len(fnames) : \A j \in 1..Len(value) :
               ~StrIn(Token(label, value[j]), fnames[i]))
           => result.val = <<>>

\* one filename matched two different requested values and is returned
\* once per value
C1_Witness ==
    /\ Filtered
    /\ Len(fnames) = 1 /\ Len(value) = 2 /\ value[1] # value[2]
    /\ result.tag = "list"
    /\ result.val = <<fnames[1], fnames[1]>>

\* C6: no false positives: every filename the call returns carries exactly
\* a requested value for the kind, i.e. get_label_value_from_filename on
\* it returns that value.
C6_NoFalsePositives ==
    (Filtered /\ label \in Label /\ result.tag = "list") =>
        \A i \in 1..Len(result.val) :
            \E j \in 1..Len(value) :
                get_label_value_from_filename(
                    result.val[i], label, label = "surface")
                  = Str(value[j])

\* C6 as amended: every filename the call returns contains the token of a
\* requested value as a substring; the value the filename carries may
\* differ from the requested one.
C6_ReturnedContainToken ==
    (Filtered /\ label \in Label /\ result.tag = "list") =>
        \A i \in 1..Len(result.val) :
            \E j \in 1..Len(value) :
                StrIn(Token(label, value[j]), result.val[i])

\* CS was requested and the file of bundle CST is returned, while the
\* file labelled nWM is not returned for WM
C6_Witness ==
    /\ Filtered /\ label = "bundle" /\ value = <<CS>>
    /\ fnames = <<Marker(bundle_label) \o CST \o Underscore>>
    /\ result.tag = "list"
    /\ result.val = fnames
    /\ get_label_value_from_filename(result.val[1], label, FALSE) = Str(CST)

\* C9: for a label that is no member of Label the call raises LabelError,
\* for every filenames list and every values list, and never returns a
\* list.
C9_FilterUnknownLabelRaises ==
    (Filtered /\ label \notin Label) => result.tag = "LabelError"

(***************************************************************************)
(* Properties of the filename root and of the value boundary               *)
(* (SpecExtract).                                                          *)
(***************************************************************************)
Max(S) == CHOOSE x \in S : \A y \in S : y <= x

\* positions of the root where `_<marker text>-` starts
MarkerStarts(s, lab_text) == {p \in 1..Len(s) : IsAt(s, p, Marker(lab_text))}

MarkerOf(lab) ==
    CASE lab = "bundle" -> <<"s", "u", "b", "s", "e", "t">>
      [] lab = "endpoint" -> <<"p", "a", "r", "t">>
      [] lab = "hemisphere" -> <<"h", "e", "m", "i">>

\* the root carries the kind's marker and no "_" follows the first marker:
\* the value after it is the last token of the root
ValueIsLastToken(lab, s) ==
    /\ MarkerStarts(s, MarkerOf(lab)) # {}
    /\ UnderscoresFrom(s, Min(MarkerStarts(s, MarkerOf(lab)))
                             + Len(Marker(MarkerOf(lab)))) = {}

\* C11: for Bundle, Endpoint and Hemisphere a value that is the very last
\* token of the root, with no "_" after it, is not extracted: the call
\* returns None.
C11_LastTokenNotExtracted ==
    (Returned /\ label \in {"bundle", "endpoint", "hemisphere"}
              /\ ValueIsLastToken(label, Root))
        => result = None

\* the root ends with `_part-head` and None came back
C11_Witness ==
    /\ Returned /\ label = "endpoint"
    /\ Root # <<>>
    /\ IsAt(Root, Len(Root) - Len(Marker(endpoint_label) \o Endpoint_HEAD) + 1,
            Marker(endpoint_label) \o Endpoint_HEAD)
    /\ ValueIsLastToken(label, Root)
    /\ result = None

\* the final path segment of f: what follows its last "/"
LastSegment(f) ==
    LET cuts == {k \in 0..Len(f) :
                    /\ k > 0 => f[k] = "/"
                    /\ \A q \in (k + 1)..Len(f) : f[q] # "/"}
    IN SubSeq(f, Max(cuts) + 1, Len(f))

DotsOf(b) == {k \in 1..Len(b) : b[k] = "."}

\* b cut before its first dot
UpToFirstDot(b) ==
    IF DotsOf(b) = {} THEN b ELSE SubSeq(b, 1, Min(DotsOf(b)) - 1)

\* b cut before its last dot
UpToLastDot(b) ==
    IF DotsOf(b) = {} THEN b ELSE SubSeq(b, 1, Max(DotsOf(b)) - 1)

\* b without its final extension: cut before the last dot when a
\* character other than a dot precedes that dot
WithoutFinalExtension(b) ==
    IF DotsOf(b) # {} /\ \E k \in 1..(Max(DotsOf(b)) - 1) : b[k] # "."
    THEN UpToLastDot(b)
    ELSE b

\* C12: the root examined is the basename cut at its first dot unless
\* has_period is True; only then the period-preserving policy is used,
\* which removes the final extension and keeps embedded dots.
C12_RootPolicyByHasPeriod ==
    Returned =>
        /\ ~has_period => Root = UpToFirstDot(LastSegment(fname))
        /\ has_period => Root = WithoutFinalExtension(LastSegment(fname))

\* has_period = True kept the `.surf` of `_pial.surf.vtk` in the root
C12_Witness ==
    /\ Returned /\ has_period /\ label = "surface"
    /\ StrIn(Surface_PIAL \o label_value_alt_separator \o surface_label, Root)
    /\ Cardinality(DotsOf(LastSegment(fname))) = 2
    /\ Cardinality(DotsOf(Root)) = 1
    /\ Root # UpToFirstDot(LastSegment(fname))

\* C13: with the default policy (has_period not set) the root is the
\* basename with only the text after the last dot removed.
C13_DefaultStripsAfterLastDot ==
    (Returned /\ ~has_period) => Root = UpToLastDot(LastSegment(fname))

\* C13 as amended: with the default policy the root is the basename with
\* everything from its first dot on removed, so it holds no dot.
C13_DefaultCutsAtFirstDot ==
    (Returned /\ ~has_period) =>
        /\ DotsOf(Root) = {}
        /\ IsAt(LastSegment(fname), 1, Root)
        /\ \/ Len(Root) = Len(LastSegment(fname))
           \/ LastSegment(fname)[Len(Root) + 1] = "."

\* a basename with two dots and text between them under the default
\* policy: the root stops at the first dot
C13_Witness ==
    /\ Returned /\ ~has_period
    /\ Cardinality(DotsOf(LastSegment(fname))) = 2
    /\ Root # <<>>
    /\ Root # UpToLastDot(LastSegment(fname))

\* C14: the result depends only on the final path segment: it is the
\* result for the final segment alone, so label tokens of directory
\* components produce no value and paths with the same final segment give
\* the same result.
C14_OnlyBasenameExamined ==
    (Returned /\ label \in Label) =>
        /\ result = get_label_value_from_filename(
                        LastSegment(fname), label, has_period)
        /\ NoMatchAnywhere(label,
               IF has_period THEN WithoutFinalExtension(LastSegment(fname))
               ELSE UpToFirstDot(LastSegment(fname)))
           => result = None

\* `_hemi-L_` sits in a directory component only and None came back
C14_Witness ==
    /\ Returned /\ label = "hemisphere"
    /\ StrIn(Marker(hemisphere_label) \o Hemisphere_LEFT \o <<"_", "/">>,
             fname)
    /\ ~StrIn(Marker(hemisphere_label), LastSegment(fname))
    /\ result = None

(***************************************************************************)
(* The subsequence miner: is_subseq, is_subseq_of_any and                  *)
(* get_longest_common_subseq.                                              *)
(***************************************************************************)
\* is_subseq with `range(len(seq) - n)`: the last slice is never compared
is_subseq_short_range(possible, s) ==
    IF Len(possible) > Len(s) THEN FALSE
    ELSE \E k \in 0..(Len(s) - Len(possible) - 1) :
             SubSeq(s, k + 1, k + Len(possible)) = possible

\* the slices seq[k : k + n] for k in range(len(seq) + 1 - n) are compared
\* with the candidate in turn
is_subseq(possible, s) ==
    IF Len(possible) > Len(s) THEN FALSE
    ELSE \E k \in 0..(Len(s) + 1 - Len(possible) - 1) :
             SubSeq(s, k + 1, k + Len(possible)) = possible

\* is_subseq_of_any that stops at the first element holding the candidate
is_subseq_of_any_exists(f, d) ==
    IF Len(d) < 1 /\ Len(f) < 1 THEN FALSE
    ELSE \E k \in 1..Len(d) : is_subseq(f, d[k])

\* is_subseq_of_any without its first test
is_subseq_of_any_noguard(f, d) ==
    \A k \in 1..Len(d) : is_subseq(f, d[k])

is_subseq_of_any(f, d) ==
    IF Len(d) < 1 /\ Len(f) < 1 THEN FALSE
    ELSE \A k \in 1..Len(d) : is_subseq(f, d[k])

\* `len(data) > 0` in place of `len(data) > 1`
lcs_precondition_one_element(d) == Len(d) > 0 /\ Len(d[1]) > 0

\* `if len(data) > 1 and len(data[0]) > 0`
lcs_precondition(d) == Len(d) > 1 /\ Len(d[1]) > 0

\* `range(len(data[0]) - i)`: the longest slice at i is never tried
inner_range_short(d, ii) == Len(d[1]) - ii

\* the number of values of j in `range(len(data[0]) - i + 1)`
inner_range(d, ii) == Len(d[1]) - ii + 1

\* `j >= len(substr)`: a find of the same length replaces the record
is_longer_or_equal(jj, sub) == jj >= Len(sub.val)

\* `j > len(substr)`
is_longer(jj, sub) == jj > Len(sub.val)

\* data[0][i : i + j]
slice(d, ii, jj) == SubSeq(d[1], ii + 1, ii + jj)

(***************************************************************************)
(* Inputs of the miner: strings of at most MaxLen characters of a two      *)
(* letter alphabet, collections of at most MaxData of them.                *)
(***************************************************************************)
MaxLen == 3
MaxData == 2

Alphabet == {"a", "b"}
Strings == SeqsUpTo(Alphabet, MaxLen)
Collections == SeqsUpTo(Strings, MaxData)

CodecIdle ==
    /\ fname = <<>>
    /\ fnames = <<>>
    /\ label = "other"
    /\ value = <<>>
    /\ has_period = FALSE
    /\ fname_shortlist = <<>>
    /\ idx = 0

InitMiner ==
    /\ CodecIdle
    /\ FetcherIdle
    /\ result = Pending
    /\ substr = Pending
    /\ lcs_i = 0
    /\ lcs_j = 0
    /\ \/ /\ pc = "is_subseq_call"
          /\ possible_subseq \in Strings
          /\ seq \in Strings
          /\ find = <<>>
          /\ data = <<>>
       \/ /\ pc = "is_subseq_of_any_call"
          /\ find \in Strings
          /\ data \in Collections
          /\ possible_subseq = <<>>
          /\ seq = <<>>
       \/ /\ pc = "lcs_call"
          /\ data \in Collections
          /\ possible_subseq = <<>>
          /\ seq = <<>>
          /\ find = <<>>

codecVars == <<fname, fnames, label, value, has_period, fname_shortlist, idx>>

is_subseq_call ==
    /\ pc = "is_subseq_call"
    /\ result' = Bool(is_subseq(possible_subseq, seq))
    /\ pc' = "is_subseq_done"
    /\ UNCHANGED codecVars
    /\ UNCHANGED minerVars
    /\ UNCHANGED fetcherVars

is_subseq_of_any_call ==
    /\ pc = "is_subseq_of_any_call"
    /\ result' = Bool(is_subseq_of_any(find, data))
    /\ pc' = "is_subseq_of_any_done"
    /\ UNCHANGED codecVars
    /\ UNCHANGED minerVars
    /\ UNCHANGED fetcherVars

\* substr = [] and the test that guards the loops
lcs_enter ==
    /\ pc = "lcs_call"
    /\ substr' = List(<<>>)
    /\ lcs_i' = 0
    /\ lcs_j' = 0
    /\ pc' = IF lcs_precondition(data) THEN "lcs_loop" ELSE "lcs_exit"
    /\ UNCHANGED codecVars
    /\ UNCHANGED <<possible_subseq, seq, find, data, result>>
    /\ UNCHANGED fetcherVars

\* one pass through the body of the inner loop, and the step to the next
\* (i, j)
lcs_iter ==
    /\ pc = "lcs_loop"
    /\ substr' = IF /\ is_longer(lcs_j, substr)
                    /\ is_subseq_of_any(slice(data, lcs_i, lcs_j), data)
                 THEN Str(slice(data, lcs_i, lcs_j))
                 ELSE substr
    /\ IF lcs_j + 1 < inner_range(data, lcs_i)
       THEN /\ lcs_j' = lcs_j + 1
            /\ UNCHANGED <<lcs_i, pc>>
       ELSE /\ lcs_j' = 0
            /\ lcs_i' = lcs_i + 1
            /\ pc' = IF lcs_i + 1 < Len(data[1]) THEN "lcs_loop"
                     ELSE "lcs_exit"
    /\ UNCHANGED codecVars
    /\ UNCHANGED <<possible_subseq, seq, find, data, result>>
    /\ UNCHANGED fetcherVars

\* return substr
lcs_return ==
    /\ pc = "lcs_exit"
    /\ result' = substr
    /\ pc' = "lcs_done"
    /\ UNCHANGED codecVars
    /\ UNCHANGED minerVars
    /\ UNCHANGED fetcherVars

NextMiner ==
    \/ is_subseq_call
    \/ is_subseq_of_any_call
    \/ lcs_enter
    \/ lcs_iter
    \/ lcs_return

SpecMiner == InitMiner /\ [][NextMiner]_vars

(***************************************************************************)
(* Properties of the miner (SpecMiner).                                    *)
(***************************************************************************)
LcsReturned == pc = "lcs_done"

\* c is a contiguous substring of every element of d
CommonSubstring(c, d) == \A k \in 1..Len(d) : StrIn(c, d[k])

\* the contiguous substrings of s
SubstringsOf(s) ==
    {SubSeq(s, a, b) : a \in 1..(Len(s) + 1), b \in 0..Len(s)}

CommonStarts(d, n) ==
    {a \in 1..(Len(d[1]) - n + 1) :
        CommonSubstring(SubSeq(d[1], a, a + n - 1), d)}

\* C16: when several substrings of the same maximal length are common, the
\* one that starts at the smallest offset of the first element is
\* returned.
C16_TieSmallestOffset ==
    (LcsReturned /\ Len(data) >= 2 /\ data[1] # <<>>
                 /\ result.val # <<>>) =>
        LET n == Len(result.val)
            first == Min(CommonStarts(data, n))
        IN result.val = SubSeq(data[1], first, first + n - 1)

\* two different common substrings tie for the maximal length
C16_Witness ==
    /\ LcsReturned /\ Len(data) >= 2 /\ result.tag = "str"
    /\ \E a \in CommonStarts(data, Len(result.val)) :
           SubSeq(data[1], a, a + Len(result.val) - 1) # result.val

\* C17: the result is empty whenever the collection has fewer than 2
\* elements or its first element is empty; a single-element collection
\* gives the empty result, not its element.
C17_EmptyOnDegenerateInput ==
    (LcsReturned /\ (Len(data) < 2 \/ data[1] = <<>>)) =>
        result = List(<<>>)

\* a single non-empty string gave the empty result
C17_Witness ==
    /\ LcsReturned /\ Len(data) = 1 /\ data[1] # <<>>
    /\ result.val = <<>>

\* seq = pre \o c \o post for some pre and post
ContiguousRun(c, s) ==
    \E n \in 0..Len(s) : \E m \in n..Len(s) :
        /\ m - n = Len(c)
        /\ \A k \in 1..Len(c) : s[n + k] = c[k]

\* C18: is_subseq(candidate, seq) is true exactly when candidate is a
\* contiguous run of characters of seq: false for a candidate longer than
\* seq, true for candidate = seq and for the empty candidate.
C18_ContiguousContainment ==
    (pc = "is_subseq_done") =>
        /\ result \in {PyTrue, PyFalse}
        /\ (result = PyTrue) <=> ContiguousRun(possible_subseq, seq)
        /\ Len(possible_subseq) > Len(seq) => result = PyFalse
        /\ possible_subseq = seq => result = PyTrue
        /\ possible_subseq = <<>> => result = PyTrue

\* `aa` is a non-contiguous subsequence of `aba` and is_subseq is false
C18_Witness ==
    /\ pc = "is_subseq_done"
    /\ possible_subseq = <<"a", "a">>
    /\ seq = <<"a", "b", "a">>
    /\ result = PyFalse

AnyReturned == pc = "is_subseq_of_any_done"

\* C19: is_subseq_of_any(candidate, collection) is true if and only if
\* is_subseq(candidate, s) holds for every s of the collection, for every
\* candidate and every collection.
C19_TrueIffAll ==
    AnyReturned =>
        ((result = PyTrue) <=>
            \A k \in 1..Len(data) : is_subseq(find, data[k]))

\* C19 as amended: is_subseq_of_any is true if and only if is_subseq holds
\* for every element and the candidate and the collection are not both
\* empty.
C19_TrueIffAllUnlessBothEmpty ==
    AnyReturned =>
        /\ result \in {PyTrue, PyFalse}
        /\ (result = PyTrue) <=>
              /\ \A k \in 1..Len(data) : is_subseq(find, data[k])
              /\ ~(data = <<>> /\ find = <<>>)

\* the candidate is in the first element and not in the second: false
C19_Witness ==
    /\ AnyReturned /\ Len(data) = 2
    /\ is_subseq(find, data[1]) /\ ~is_subseq(find, data[2])
    /\ result = PyFalse

\* C20: the empty candidate with the empty collection gives false, and no
\* exception.
C20_EmptyEmptyFalse ==
    (AnyReturned /\ find = <<>> /\ data = <<>>) => result = PyFalse

C20_Witness ==
    /\ AnyReturned /\ find = <<>> /\ data = <<>>
    /\ result.tag = "False"

(***************************************************************************)
(* The key builders of tractodata/io/fetcher.py.  A Python value is a      *)
(* record: Str(text) or None.                                              *)
(***************************************************************************)
key_separator == <<",">>

\* raise TypeError: `+=` or `+` on None
TypeError == [tag |-> "TypeError", val |-> <<>>]

\* the truth value of `if x:` for a string or None: None and "" are false
truthy(x) == x.tag = "str" /\ x.val # <<>>

\* the key without the separator between its parts
_build_bundle_key_nosep(b, h) ==
    IF truthy(h)
    THEN (IF b.tag = "str" THEN Str(b.val \o h.val) ELSE TypeError)
    ELSE b

\* key = bundle_name; if hemisphere: key += key_separator + hemisphere
_build_bundle_key(b, h) ==
    IF truthy(h)
    THEN (IF b.tag = "str" THEN Str(b.val \o key_separator \o h.val)
          ELSE TypeError)
    ELSE b

\* the endpoint appended before the hemisphere
_build_bundle_endpoint_key_endpoint_first(b, e, h) ==
    IF b.tag # "str" \/ e.tag # "str" THEN TypeError
    ELSE IF truthy(h)
         THEN Str(b.val \o key_separator \o e.val \o key_separator \o h.val)
         ELSE Str(b.val \o key_separator \o e.val)

\* key = bundle_name; if hemisphere: key += key_separator + hemisphere;
\* key += key_separator + endpoint
_build_bundle_endpoint_key(b, e, h) ==
    LET k == _build_bundle_key(b, h)
    IN IF k.tag = "str" /\ e.tag = "str"
       THEN Str(k.val \o key_separator \o e.val)
       ELSE TypeError

(***************************************************************************)
(* Inputs of the key builders: bundle names of at most MaxNameLen          *)
(* characters, the separator among the characters; a hemisphere or None;   *)
(* an endpoint.                                                            *)
(***************************************************************************)
MaxNameLen == 2

NameAlphabet == {"A", "B", ","}
BundleNames == SeqsUpTo(NameAlphabet, MaxNameLen)
Hemispheres == {Hemisphere_LEFT, Hemisphere_RIGHT}
Endpoints == {Endpoint_HEAD, Endpoint_TAIL}

InitKey ==
    /\ CodecIdle
    /\ MinerIdle
    /\ FetchIdle
    /\ ReadIdle
    /\ BatchIdle
    /\ ConcIdle
    /\ result = Pending
    /\ key = Pending
    /\ bundle_name \in {Str(b) : b \in BundleNames}
    /\ hemisphere \in {None} \cup {Str(h) : h \in Hemispheres}
    /\ \/ /\ pc = "_build_bundle_key_call"
          /\ endpoint = None
       \/ /\ pc = "_build_bundle_endpoint_key_call"
          /\ endpoint \in {Str(e) : e \in Endpoints}

_build_bundle_key_call ==
    /\ pc = "_build_bundle_key_call"
    /\ key' = _build_bundle_key(bundle_name, hemisphere)
    /\ result' = key'
    /\ pc' = "_build_bundle_key_done"
    /\ UNCHANGED <<bundle_name, hemisphere, endpoint>>
    /\ UNCHANGED <<fetchVars, fetchLog, readVars, batchVars, concVars>>
    /\ UNCHANGED codecVars
    /\ UNCHANGED minerVars

_build_bundle_endpoint_key_call ==
    /\ pc = "_build_bundle_endpoint_key_call"
    /\ key' = _build_bundle_endpoint_key(bundle_name, endpoint, hemisphere)
    /\ result' = key'
    /\ pc' = "_build_bundle_endpoint_key_done"
    /\ UNCHANGED <<bundle_name, hemisphere, endpoint>>
    /\ UNCHANGED <<fetchVars, fetchLog, readVars, batchVars, concVars>>
    /\ UNCHANGED codecVars
    /\ UNCHANGED minerVars

NextKey == _build_bundle_key_call \/ _build_bundle_endpoint_key_call

SpecKey == InitKey /\ [][NextKey]_vars

(***************************************************************************)
(* Properties of the key builders (SpecKey).                               *)
(***************************************************************************)
BundleKeyBuilt == pc = "_build_bundle_key_done"
EndpointKeyBuilt == pc = "_build_bundle_endpoint_key_done"

\* `,x`
Sep(x) == <<",">> \o x

\* C21: the bundle key is the bundle followed by `,hemisphere` when a
\* hemisphere is given and the bundle alone when it is absent; the
\* endpoint key is the bundle, then `,hemisphere` when a hemisphere is
\* given, then always `,endpoint`, in that order.
C21_KeyLayout ==
    /\ BundleKeyBuilt =>
         /\ result.tag = "str"
         /\ hemisphere = None => result.val = bundle_name.val
         /\ hemisphere # None =>
              result.val = bundle_name.val \o Sep(hemisphere.val)
    /\ EndpointKeyBuilt =>
         /\ result.tag = "str"
         /\ hemisphere = None =>
              result.val = bundle_name.val \o Sep(endpoint.val)
         /\ hemisphere # None =>
              result.val = bundle_name.val \o Sep(hemisphere.val)
                              \o Sep(endpoint.val)

\* an endpoint key was built with a hemisphere
C21_Witness ==
    /\ EndpointKeyBuilt
    /\ hemisphere = Str(Hemisphere_LEFT)
    /\ endpoint = Str(Endpoint_TAIL)
    /\ bundle_name.val = <<"A", "B">>
    /\ result.tag = "str"

\* the parts of k between the separators, as `k.split(",")` gives them
RECURSIVE SplitAtSeparator(_)
SplitAtSeparator(k) ==
    IF \A p \in 1..Len(k) : k[p] # ","
    THEN <<k>>
    ELSE LET p == Min({q \in 1..Len(k) : k[q] = ","})
         IN <<SubSeq(k, 1, p - 1)>>
                \o SplitAtSeparator(SubSeq(k, p + 1, Len(k)))

\* the parts a key must decompose into
PartsOf(b, h) == IF h = None THEN <<b.val>> ELSE <<b.val, h.val>>

\* C22 as stated: for every bundle name and every hemisphere in L, R or
\* absent, splitting the bundle key at the separator gives back the
\* bundle and the hemisphere.
C22_KeyRoundTrip ==
    BundleKeyBuilt =>
        /\ result.tag = "str"
        /\ SplitAtSeparator(result.val) = PartsOf(bundle_name, hemisphere)

HasSeparator(b) == \E p \in 1..Len(b) : b[p] = ","

\* C22 amended: for every bundle name that does not contain the separator
\* and every hemisphere in L, R or absent, splitting the bundle key at
\* the separator gives back the bundle and the hemisphere.
C22_KeyRoundTripWithoutSeparatorInName ==
    (BundleKeyBuilt /\ ~HasSeparator(bundle_name.val)) =>
        /\ result.tag = "str"
        /\ SplitAtSeparator(result.val) = PartsOf(bundle_name, hemisphere)

\* a key of a separator-free bundle name and a hemisphere was built
C22_Witness ==
    /\ BundleKeyBuilt
    /\ bundle_name.val = <<"B", "A">>
    /\ hemisphere = Str(Hemisphere_RIGHT)
    /\ SplitAtSeparator(result.val) = <<<<"B", "A">>, <<"R">>>>

(***************************************************************************)
(* check_hash, fetch_data and the fetchers made by _make_fetcher.  A file  *)
(* of the target folder is known by its position in local_fnames; its      *)
(* content is Absent when it does not exist.  The download (urlopen and    *)
(* copyfileobj) writes the content the server holds.                       *)
(***************************************************************************)
Absent == 0
Served == 1
Altered == 2
Content == {Served, Altered}

\* raise FetcherError(msg)
FetcherError == [tag |-> "FetcherError", val |-> <<>>]
\* `_hash.lower()` on None
AttributeError == [tag |-> "AttributeError", val |-> <<>>]

\* md5(...).hexdigest(): lowercase hexadecimal digits
_get_file_hash(c) == IF c = Served THEN <<"a", "1">> ELSE <<"1", "b">>

\* str.lower() and str.upper() on hexadecimal digits
lower_char(c) == CASE c = "A" -> "a" [] c = "B" -> "b" [] OTHER -> c
upper_char(c) == CASE c = "a" -> "A" [] c = "b" -> "B" [] OTHER -> c
str_lower(h) == [i \in 1..Len(h) |-> lower_char(h[i])]
str_upper(h) == [i \in 1..Len(h) |-> upper_char(h[i])]

\* the comparison without the case normalisation
check_hash_case_sensitive(c, stored) ==
    IF stored.tag # "None" /\ stored.val # _get_file_hash(c)
    THEN FetcherError
    ELSE None

\* check_hash(filename, stored_hash) on a file of content c
check_hash(c, stored) ==
    IF stored.tag # "None" /\ str_lower(stored.val) # _get_file_hash(c)
    THEN FetcherError
    ELSE None

\* the outcome of the test reduced to the existence of the file
file_is_current_if_exists(c, h) ==
    IF c = Absent THEN PyFalse
    ELSE IF h.tag = "None" THEN AttributeError
    ELSE PyTrue

\* os.path.exists(fullpath) and
\* (_get_file_hash(fullpath) == _hash.lower())
file_is_current(c, h) ==
    IF c = Absent THEN PyFalse
    ELSE IF h.tag = "None" THEN AttributeError
    ELSE Bool(_get_file_hash(c) = str_lower(h.val))

\* _get_file_data(fullpath, url): the file gets the served content
_get_file_data(d, f) == [d EXCEPT ![f] = Served]

\* files[n] = (baseurl + f, hash_list[i] if hash_list is not None else None)
make_files(names, hashes) ==
    [k \in 1..Len(names) |->
        [name |-> names[k],
         hash |-> IF hashes.tag # "None" THEN Str(hashes.val[k]) ELSE None]]

(***************************************************************************)
(* Inputs: a fetcher of at most MaxFiles files, made without hash_list or  *)
(* with, for each file, the hash of the served content, that hash in upper *)
(* case, or another hash; at most MaxCalls calls of the fetcher, between   *)
(* which the files of the folder are altered or deleted.                   *)
(***************************************************************************)
MaxFiles == 2
MaxCalls == 3

StoredHashes == {_get_file_hash(Served), str_upper(_get_file_hash(Served)),
                 _get_file_hash(Altered)}

InitFetch ==
    /\ CodecIdle
    /\ MinerIdle
    /\ KeyIdle
    /\ ReadIdle
    /\ BatchIdle
    /\ ConcIdle
    /\ result = Pending
    /\ pc = "fetch_idle"
    /\ \E n \in 1..MaxFiles :
          /\ local_fnames = [k \in 1..n |-> k]
          /\ hash_list \in {None} \cup {List(h) : h \in [1..n -> StoredHashes]}
          /\ disk = [k \in 1..n |-> Absent]
          /\ disk0 = [k \in 1..n |-> Absent]
    /\ files = <<>>
    /\ fetch_i = 0
    /\ all_skip = TRUE
    /\ filename = 0
    /\ stored_hash = None
    /\ downloaded = {}
    /\ clean = FALSE
    /\ after_success = FALSE
    /\ calls = 0

notFetch == <<codecVars, minerVars, keyVars, readVars, batchVars,
             concVars>>

\* fetcher(): build files, enter fetch_data
fetcher_call ==
    /\ pc \in {"fetch_idle", "fetch_done"}
    /\ calls < MaxCalls
    /\ files' = make_files(local_fnames, hash_list)
    /\ fetch_i' = 1
    /\ all_skip' = TRUE
    /\ result' = Pending
    /\ pc' = "fetch_loop"
    /\ downloaded' = {}
    /\ disk0' = disk
    /\ after_success' = clean
    /\ calls' = calls + 1
    /\ UNCHANGED <<local_fnames, hash_list, disk, filename, stored_hash,
                   clean>>
    /\ UNCHANGED notFetch

\* an iteration of `for f in files` that takes `continue`
fetch_skip ==
    /\ pc = "fetch_loop"
    /\ fetch_i <= Len(files)
    /\ file_is_current(disk[files[fetch_i].name], files[fetch_i].hash)
          = PyTrue
    /\ fetch_i' = fetch_i + 1
    /\ UNCHANGED <<pc, result, local_fnames, hash_list, files, disk,
                   all_skip, filename, stored_hash>>
    /\ UNCHANGED fetchLog
    /\ UNCHANGED notFetch

\* an iteration whose test raises: the file exists and _hash is None
fetch_attribute_error ==
    /\ pc = "fetch_loop"
    /\ fetch_i <= Len(files)
    /\ file_is_current(disk[files[fetch_i].name], files[fetch_i].hash)
          = AttributeError
    /\ result' = AttributeError
    /\ pc' = "fetch_done"
    /\ clean' = FALSE
    /\ UNCHANGED <<local_fnames, hash_list, files, disk, fetch_i,
                   all_skip, filename, stored_hash>>
    /\ UNCHANGED <<downloaded, disk0, after_success, calls>>
    /\ UNCHANGED notFetch

\* an iteration that downloads the file and checks its hash
fetch_download ==
    /\ pc = "fetch_loop"
    /\ fetch_i <= Len(files)
    /\ file_is_current(disk[files[fetch_i].name], files[fetch_i].hash)
          = PyFalse
    /\ all_skip' = FALSE
    /\ disk' = _get_file_data(disk, files[fetch_i].name)
    /\ downloaded' = downloaded \cup {files[fetch_i].name}
    /\ LET checked == check_hash(disk'[files[fetch_i].name],
                                 files[fetch_i].hash)
       IN IF checked = FetcherError
          THEN /\ result' = FetcherError
               /\ pc' = "fetch_done"
               /\ clean' = FALSE
               /\ UNCHANGED fetch_i
          ELSE /\ fetch_i' = fetch_i + 1
               /\ UNCHANGED <<result, pc, clean>>
    /\ UNCHANGED <<local_fnames, hash_list, files, filename, stored_hash>>
    /\ UNCHANGED <<disk0, after_success, calls>>
    /\ UNCHANGED notFetch

\* the end of the loop: the messages, and the return
fetch_return ==
    /\ pc = "fetch_loop"
    /\ fetch_i > Len(files)
    /\ result' = None
    /\ pc' = "fetch_done"
    /\ clean' = TRUE
    /\ UNCHANGED fetchVars
    /\ UNCHANGED <<downloaded, disk0, after_success, calls>>
    /\ UNCHANGED notFetch

\* between two calls a file of the folder is rewritten or deleted
alter_file ==
    /\ pc \in {"fetch_idle", "fetch_done"}
    /\ calls > 0
    /\ \E f \in 1..Len(local_fnames) : \E c \in {Absent} \cup Content :
          /\ c # disk[f]
          /\ disk' = [disk EXCEPT ![f] = c]
    /\ pc' = "fetch_idle"
    /\ clean' = FALSE
    /\ UNCHANGED <<local_fnames, hash_list, files, fetch_i, all_skip,
                   filename, stored_hash, result>>
    /\ UNCHANGED <<downloaded, disk0, after_success, calls>>
    /\ UNCHANGED notFetch

\* check_hash(filename, stored_hash) on a file of the folder
check_hash_call ==
    /\ pc \in {"fetch_idle", "fetch_done"}
    /\ \E f \in 1..Len(local_fnames) :
       \E h \in {None} \cup {Str(x) : x \in StoredHashes} :
          /\ disk[f] # Absent
          /\ filename' = f
          /\ stored_hash' = h
          /\ result' = check_hash(disk[f], h)
    /\ pc' = "check_hash_done"
    /\ UNCHANGED <<local_fnames, hash_list, files, disk, fetch_i, all_skip>>
    /\ UNCHANGED fetchLog
    /\ UNCHANGED notFetch

NextFetch ==
    \/ fetcher_call
    \/ fetch_skip
    \/ fetch_attribute_error
    \/ fetch_download
    \/ fetch_return
    \/ alter_file
    \/ check_hash_call

SpecFetch == InitFetch /\ [][NextFetch]_vars

(***************************************************************************)
(* Properties of fetch_data, check_hash and the fetchers (SpecFetch).      *)
(***************************************************************************)
FetchEnded == pc = "fetch_done"
FetchReturned == pc = "fetch_done" /\ result = None

\* the number a hexadecimal digit denotes
HexValue(c) ==
    CASE c \in {"a", "A"} -> 10
      [] c \in {"b", "B"} -> 11
      [] c = "1" -> 1

\* two hexadecimal digests denote the same hash
SameDigest(a, b) ==
    /\ Len(a) = Len(b)
    /\ \A i \in 1..Len(a) : HexValue(a[i]) = HexValue(b[i])

\* the hash of content c is the expected hash h
HashAsExpected(c, h) ==
    /\ c # Absent
    /\ h # None
    /\ SameDigest(_get_file_hash(c), h.val)

\* file k was missing, or present with a hash other than the expected
\* one, when the call began
MissingOrStale(k) ==
    \/ disk0[k] = Absent
    \/ /\ files[k].hash # None
       /\ ~HashAsExpected(disk0[k], files[k].hash)

\* the files the loop of the call got to
Reached == IF result = None THEN 1..Len(files) ELSE 1..fetch_i

\* C24: a call of fetch_data downloads a listed file it gets to if and
\* only if the file did not exist or existed with a hash other than the
\* expected one; a call right after a call that returned downloads
\* nothing; and when a call returns every file with an expected hash has
\* that hash, also a file that was altered after an earlier fetch.
C24_DownloadIffMissingOrStale ==
    FetchEnded =>
        /\ \A k \in Reached : (k \in downloaded <=> MissingOrStale(k))
        /\ downloaded \subseteq Reached
        /\ (result = None /\ after_success) => downloaded = {}
        /\ result = None =>
             \A k \in 1..Len(files) :
                files[k].hash # None =>
                    HashAsExpected(disk[k], files[k].hash)

\* a file altered after a fetch that returned was downloaded again by a
\* call that returned
C24_Witness ==
    /\ FetchReturned
    /\ calls = 2
    /\ \E k \in downloaded :
          /\ disk0[k] = Altered
          /\ HashAsExpected(Served, files[k].hash)
          /\ disk[k] = Served

\* C25: fetch_data raises FetcherError when the file it just downloaded
\* has a hash other than the expected one, and the file stays in the
\* folder; check_hash raises FetcherError exactly when a stored hash is
\* given and is not the hash of the file, and returns None otherwise.
C25_MismatchRaisesAndKeepsFile ==
    /\ (FetchEnded /\ result = FetcherError) =>
          /\ fetch_i \in downloaded
          /\ disk[fetch_i] = Served
          /\ files[fetch_i].hash # None
          /\ ~HashAsExpected(disk[fetch_i], files[fetch_i].hash)
    /\ (FetchEnded /\ result # FetcherError) =>
          \A k \in downloaded :
             files[k].hash # None =>
                 HashAsExpected(Served, files[k].hash)
    /\ pc = "check_hash_done" =>
          /\ result = FetcherError <=>
                (/\ stored_hash # None
                 /\ ~SameDigest(_get_file_hash(disk[filename]),
                                stored_hash.val))
          /\ result # FetcherError => result = None

\* check_hash was given the hash of the file in upper case and returned
C25_CheckHashWitness ==
    /\ pc = "check_hash_done"
    /\ result = None
    /\ stored_hash = Str(str_upper(_get_file_hash(Served)))
    /\ disk[filename] = Served

\* fetch_data raised on the file it had just downloaded
C25_Witness ==
    /\ FetchEnded
    /\ result = FetcherError
    /\ disk[fetch_i] = Served

\* C26: every call of a fetcher made without hash_list gets through
\* fetch_data without a failure of the hash handling, whether its files
\* exist in the folder or not.
C26_NoHashListNeverFails ==
    (FetchEnded /\ hash_list = None) => result = None

(***************************************************************************)
(* read_dataset_bundling and read_dataset_bundle_masks: the two filters,   *)
(* the loop that builds the keys, and the dictionary.  The value kept      *)
(* under a key stands for the data loaded from the file: it is the         *)
(* filename.                                                               *)
(***************************************************************************)
\* filter_filenames_on_value run to its end: the lists of the iterations
\* k, k + 1, ... of `for _value in value`, concatenated
RECURSIVE filter_values_from(_, _, _, _)
filter_values_from(fs, lab, vs, k) ==
    IF k > Len(vs) THEN <<>>
    ELSE filter_list_on_list(fs, <<filter_label_value(lab, vs[k])>>)
            \o filter_values_from(fs, lab, vs, k + 1)

filter_filenames_on_value(fs, lab, vs) ==
    IF lab \notin Label /\ Len(vs) > 0 THEN LabelError
    ELSE List(filter_values_from(fs, lab, vs, 1))

\* the truth value of `if x:` for a list or None
truthy_list(x) == x.tag = "list" /\ x.val # <<>>

\* the hemisphere filter applied to fnames instead of fnames_shortlist
read_shortlist_hemisphere_on_fnames(fs, b, h) ==
    IF truthy_list(h)
    THEN filter_filenames_on_value(fs, "hemisphere", h.val).val
    ELSE IF truthy_list(b)
         THEN filter_filenames_on_value(fs, "bundle", b.val).val
         ELSE fs

\* fnames_shortlist = fnames and the two `if` statements that filter it
read_shortlist(fs, b, h) ==
    LET by_bundle ==
            IF truthy_list(b)
            THEN filter_filenames_on_value(fs, "bundle", b.val).val
            ELSE fs
    IN IF truthy_list(h)
       THEN filter_filenames_on_value(by_bundle, "hemisphere", h.val).val
       ELSE by_bundle

\* the key of the loop body
read_key(f) ==
    _build_bundle_key(get_label_value_from_filename(f, "bundle", FALSE),
                      get_label_value_from_filename(f, "hemisphere", FALSE))

\* bundles[key] = ...
dict_set(d, k, v) == {p \in d : p.key # k} \cup {[key |-> k, file |-> v]}

\* the returned dictionary (its content is in bundles)
Dict == [tag |-> "dict", val |-> <<>>]

(***************************************************************************)
(* Inputs: the files of a dataset, named as the bundle files of the        *)
(* datasets are and sorted as get_fnames sorts them, with a bundle without *)
(* hemisphere, a bundle in both hemispheres and a bundle whose name starts *)
(* like another's; bundle_name and hemisphere_name absent or lists of at   *)
(* most MaxValues values.                                                  *)
(***************************************************************************)
CC == <<"C", "C">>
DatasetDir == <<"/", "d", "/", "s">>
TrkSuffix == Underscore \o <<"t", ".", "t", "r", "k">>

\* /d/s[_hemi-<h>]_subset-<b>_t.trk
DatasetFile(h, b) ==
    DatasetDir \o (IF h = <<>> THEN <<>> ELSE Marker(hemisphere_label) \o h)
        \o Marker(bundle_label) \o b \o TrkSuffix

DatasetPool ==
    << DatasetFile(Hemisphere_LEFT, CST),
       DatasetFile(Hemisphere_LEFT, CS),
       DatasetFile(Hemisphere_RIGHT, CST),
       DatasetFile(<<>>, CC) >>

\* the sub-lists of a list, in its order
SubLists(l) ==
    {SelectSeq(l, LAMBDA x : \E k \in I : l[k] = x) : I \in SUBSET (1..Len(l))}

BundleValues == {CC, CS, CST}

InitRead ==
    /\ CodecIdle
    /\ MinerIdle
    /\ KeyIdle
    /\ FetchIdle
    /\ BatchIdle
    /\ ConcIdle
    /\ result = Pending
    /\ pc = "read_call"
    /\ reader \in {"read_dataset_bundling", "read_dataset_bundle_masks"}
    /\ dataset_fnames \in SubLists(DatasetPool)
    /\ bundle_name_arg \in
          {None} \cup {List(l) : l \in SeqsUpTo(BundleValues, MaxValues)}
    /\ hemisphere_name_arg \in
          {None} \cup {List(l) : l \in SeqsUpTo(Hemispheres, MaxValues)}
    /\ fnames_shortlist = <<>>
    /\ read_i = 0
    /\ bundles = {}

notRead == <<codecVars, minerVars, keyVars, fetchVars, fetchLog,
            batchVars, concVars>>

\* bundles = dict() and the filters
read_enter ==
    /\ pc = "read_call"
    /\ bundles' = {}
    /\ fnames_shortlist' = read_shortlist(dataset_fnames, bundle_name_arg,
                                          hemisphere_name_arg)
    /\ read_i' = 1
    /\ pc' = "read_loop"
    /\ UNCHANGED <<reader, bundle_name_arg, hemisphere_name_arg,
                   dataset_fnames, result>>
    /\ UNCHANGED notRead

\* an iteration of `for fname in fnames_shortlist`
read_iter ==
    /\ pc = "read_loop"
    /\ read_i <= Len(fnames_shortlist)
    /\ LET k == read_key(fnames_shortlist[read_i])
       IN IF k = TypeError
          THEN /\ result' = TypeError
               /\ pc' = "read_done"
               /\ UNCHANGED <<bundles, read_i>>
          ELSE /\ bundles' = dict_set(bundles, k, fnames_shortlist[read_i])
               /\ read_i' = read_i + 1
               /\ UNCHANGED <<result, pc>>
    /\ UNCHANGED <<reader, bundle_name_arg, hemisphere_name_arg,
                   dataset_fnames, fnames_shortlist>>
    /\ UNCHANGED notRead

\* return bundles
read_return ==
    /\ pc = "read_loop"
    /\ read_i > Len(fnames_shortlist)
    /\ result' = Dict
    /\ pc' = "read_done"
    /\ UNCHANGED readVars
    /\ UNCHANGED notRead

NextRead == read_enter \/ read_iter \/ read_return

SpecRead == InitRead /\ [][NextRead]_vars

(***************************************************************************)
(* Properties of the dataset readers (SpecRead).                           *)
(***************************************************************************)
ReadEnded == pc = "read_done"

BothGiven == truthy_list(bundle_name_arg) /\ truthy_list(hemisphere_name_arg)

\* f contains the token of the kind for one of the values vs
ContainsSome(f, lab, vs) ==
    \E k \in 1..Len(vs) : StrIn(Token(lab, vs[k]), f)

\* the key a file stands under: the text between `_subset-` and the next
\* "_" of its root, then `,L` or `,R` when the root holds `_hemi-L_` or
\* `_hemi-R_`
KeyText(f) ==
    LET root == UpToFirstDot(LastSegment(f))
        hemis == {h \in Hemispheres :
                     StrIn(Marker(hemisphere_label) \o h \o Underscore, root)}
        b == TextAfterFirstBundleMarker(root).val
    IN IF hemis = {} THEN b
       ELSE b \o <<",">> \o (CHOOSE h \in hemis : TRUE)

FilesIn(d) == {p.file : p \in d}
ListedFiles == {dataset_fnames[k] : k \in 1..Len(dataset_fnames)}

\* C27: with bundle_name and hemisphere_name both given, the readers
\* return a dictionary that holds exactly the files that contain
\* `subset-b` for a requested b and `hemi-h` for a requested h, so no file
\* without a hemisphere token, each under the key bundle[,hemisphere] of
\* the values its name carries.
C27_BundleThenHemisphere ==
    (ReadEnded /\ BothGiven) =>
        /\ result = Dict
        /\ FilesIn(bundles) =
              {f \in ListedFiles :
                  /\ ContainsSome(f, "bundle", bundle_name_arg.val)
                  /\ ContainsSome(f, "hemisphere", hemisphere_name_arg.val)}
        /\ \A f \in FilesIn(bundles) : StrIn(<<"h", "e", "m", "i", "-">>, f)
        /\ \A p \in bundles : p.key = Str(KeyText(p.file))
        /\ \A p, q \in bundles : p.key = q.key => p = q

\* CC and CST were requested for hemisphere L: the commissural CC is left
\* out and the left CST is returned under `CST,L`
C27_Witness ==
    /\ ReadEnded
    /\ bundle_name_arg = List(<<CC, CST>>)
    /\ hemisphere_name_arg = List(<<Hemisphere_LEFT>>)
    /\ Len(dataset_fnames) = 4
    /\ bundles = {[key |-> Str(CST \o <<",">> \o Hemisphere_LEFT),
                   file |-> DatasetFile(Hemisphere_LEFT, CST)]}

(***************************************************************************)
(* Extraction followed by filtering: get_label_value_from_filename on a    *)
(* filename of a list, then filter_filenames_on_value on the list with the *)
(* value it returned.                                                      *)
(***************************************************************************)
\* a filename that carries no token
Tokenless == <<"x">> \o VtkExt

InitComplete ==
    /\ MinerIdle
    /\ FetcherIdle
    /\ pc = "complete_call"
    /\ label \in {"bundle", "hemisphere", "endpoint"}
    /\ fname \in Filenames(label)
    /\ fnames \in {<<fname>>, <<fname, Tokenless>>, <<Tokenless, fname>>}
    /\ value = <<>>
    /\ has_period = FALSE
    /\ result = Pending
    /\ fname_shortlist = <<>>
    /\ idx = 0

\* value = get_label_value_from_filename(fname, label); the filter is
\* called with [value] unless the value is None
complete_extract ==
    /\ pc = "complete_call"
    /\ LET v == get_label_value_from_filename(fname, label, has_period)
       IN IF v.tag = "str"
          THEN /\ value' = <<v.val>>
               /\ pc' = "filter_call"
          ELSE /\ value' = <<>>
               /\ pc' = "complete_absent"
    /\ UNCHANGED <<fname, fnames, label, has_period, result,
                   fname_shortlist, idx>>
    /\ UNCHANGED minerVars
    /\ UNCHANGED fetcherVars

NextComplete == complete_extract \/ filter_enter \/ filter_iter \/ filter_return

SpecComplete == InitComplete /\ [][NextComplete]_vars

\* C29: for Bundle, Hemisphere and Endpoint, a filename of the list from
\* which get_label_value_from_filename returns a value v is in the list
\* filter_filenames_on_value returns for [v].
C29_FilterCompleteForExtracted ==
    Filtered =>
        /\ result.tag = "list"
        /\ \E k \in 1..Len(result.val) : result.val[k] = fname

\* the value extracted from the second filename of the list selected that
\* filename and not the other
C29_Witness ==
    /\ Filtered
    /\ label = "endpoint"
    /\ value = <<Endpoint_TAIL>>
    /\ fnames = <<Tokenless, fname>>
    /\ result = List(<<fname>>)

(***************************************************************************)
(* get_longest_common_subseq as a function: the two loops run to their     *)
(* end.                                                                    *)
(***************************************************************************)
\* the inner loop with the test `j > len(substr)` dropped: the last
\* common slice is kept
RECURSIVE lcs_inner_keep_last(_, _, _, _)
lcs_inner_keep_last(d, ii, jj, sub) ==
    IF jj >= inner_range(d, ii) THEN sub
    ELSE IF is_subseq_of_any(slice(d, ii, jj), d)
         THEN lcs_inner_keep_last(d, ii, jj + 1, Str(slice(d, ii, jj)))
         ELSE lcs_inner_keep_last(d, ii, jj + 1, sub)

\* the inner loop at i = ii from j = jj on, substr being sub
RECURSIVE lcs_inner(_, _, _, _)
lcs_inner(d, ii, jj, sub) ==
    IF jj >= inner_range(d, ii) THEN sub
    ELSE IF /\ is_longer(jj, sub)
            /\ is_subseq_of_any(slice(d, ii, jj), d)
         THEN lcs_inner(d, ii, jj + 1, Str(slice(d, ii, jj)))
         ELSE lcs_inner(d, ii, jj + 1, sub)

\* the outer loop from i = ii on, substr being sub
RECURSIVE lcs_from(_, _, _)
lcs_from(d, ii, sub) ==
    IF ii >= Len(d[1]) THEN sub
    ELSE lcs_from(d, ii + 1, lcs_inner(d, ii, 0, sub))

\* the search restricted to the slices that start at the beginning of
\* data[0]: the longest common prefix
get_longest_common_subseq_prefix_only(d) ==
    IF lcs_precondition(d)
    THEN LET pre == {n \in 1..Len(d[1]) :
                        is_subseq_of_any(SubSeq(d[1], 1, n), d)}
         IN IF pre = {} THEN List(<<>>)
            ELSE Str(SubSeq(d[1], 1, Max(pre)))
    ELSE List(<<>>)

get_longest_common_subseq(d) ==
    IF lcs_precondition(d) THEN lcs_from(d, 0, List(<<>>))
    ELSE List(<<>>)

(***************************************************************************)
(* Specification of two calls of get_longest_common_subseq, on a           *)
(* collection of two to MaxData strings and on a permutation of it.        *)
(***************************************************************************)
Orders(n) ==
    {f \in [1..n -> 1..n] : \A a, b \in 1..n : f[a] = f[b] => a = b}

InitPermute ==
    /\ CodecIdle
    /\ KeyIdle
    /\ FetchIdle
    /\ ReadIdle
    /\ ConcIdle
    /\ pc = "lcs_first_call"
    /\ data \in {d \in Collections : Len(d) >= 2}
    /\ \E f \in Orders(Len(data)) :
          permuted = [k \in 1..Len(data) |-> data[f[k]]]
    /\ result = Pending
    /\ result_permuted = Pending
    /\ possible_subseq = <<>>
    /\ seq = <<>>
    /\ find = <<>>
    /\ substr = Pending
    /\ lcs_i = 0
    /\ lcs_j = 0
    /\ strip_p = <<>>
    /\ strip_ids = <<>>
    /\ strip_s = <<>>
    /\ remainders = <<>>

notBatch == <<codecVars, keyVars, fetchVars, fetchLog, readVars,
              possible_subseq, seq, find, substr, lcs_i, lcs_j, concVars>>

\* get_longest_common_subseq(data)
lcs_first_call ==
    /\ pc = "lcs_first_call"
    /\ result' = get_longest_common_subseq(data)
    /\ pc' = "lcs_second_call"
    /\ UNCHANGED <<data, batchVars>>
    /\ UNCHANGED notBatch

\* get_longest_common_subseq(permuted)
lcs_second_call ==
    /\ pc = "lcs_second_call"
    /\ result_permuted' = get_longest_common_subseq(permuted)
    /\ pc' = "lcs_both_done"
    /\ UNCHANGED <<data, result, permuted, strip_p, strip_ids, strip_s,
                   remainders>>
    /\ UNCHANGED notBatch

NextPermute == lcs_first_call \/ lcs_second_call

SpecPermute == InitPermute /\ [][NextPermute]_vars

\* C30: for a collection of at least two strings and a permutation of
\* it, also one that changes the first string, the results of
\* get_longest_common_subseq have the same length (the results may
\* differ).
C30_LengthOrderIndependent ==
    pc = "lcs_both_done" => Len(result.val) = Len(result_permuted.val)

\* the first string changed and the two results are different strings of
\* the same length
C30_Witness ==
    /\ pc = "lcs_both_done"
    /\ data[1] # permuted[1]
    /\ result.tag = "str" /\ result_permuted.tag = "str"
    /\ result.val # result_permuted.val
    /\ Len(result.val) = Len(result_permuted.val)

(***************************************************************************)
(* The two-pass strip of a batch of filename roots (the caller of          *)
(* get_longest_common_subseq that isolates the submission identifiers):    *)
(* the longest common substring is removed from every string, then the     *)
(* longest common substring of what is left is removed again.              *)
(***************************************************************************)
\* s with every occurrence of c removed, from left to right; s itself
\* when c is empty
RECURSIVE remove_all(_, _)
remove_all(s, c) ==
    IF c = <<>> \/ Len(s) < Len(c) THEN s
    ELSE IF IsAt(s, 1, c)
         THEN remove_all(SubSeq(s, Len(c) + 1, Len(s)), c)
         ELSE <<Head(s)>> \o remove_all(Tail(s), c)

\* one pass: the longest common substring removed from every string
strip_pass(d) ==
    LET c == get_longest_common_subseq(d).val
    IN [k \in 1..Len(d) |-> remove_all(d[k], c)]

(***************************************************************************)
(* Inputs: batches of two to MaxData strings P + id + S, P and S of a pool *)
(* (empty, of one letter, of two letters, holding a character of the       *)
(* identifiers), the identifiers of at most MaxIdLen characters; and the   *)
(* batch of the submission files, its common parts shortened.              *)
(***************************************************************************)
MaxIdLen == 2

PartPool == { <<>>, <<"p">>, <<"p", "q">>, <<"1">>, <<"p", "1">> }
IdAlphabet == {"1", "2"}
Ids == SeqsUpTo(IdAlphabet, MaxIdLen)

\* sub<id>_res for the ids 1-0, 1-1, 1-2 and 2-1
SubmissionPrefix == <<"_", "s", "u", "b">>
SubmissionSuffix == <<"_", "r", "e", "s">>
SubmissionIds == << <<"1", "-", "0">>, <<"1", "-", "1">>,
                    <<"1", "-", "2">>, <<"2", "-", "1">> >>

Batch(p, ids, sfx) == [k \in 1..Len(ids) |-> p \o ids[k] \o sfx]

InitStrip ==
    /\ CodecIdle
    /\ KeyIdle
    /\ FetchIdle
    /\ ReadIdle
    /\ ConcIdle
    /\ pc = "strip_call"
    /\ \/ /\ strip_p \in PartPool
          /\ strip_s \in PartPool
          /\ strip_ids \in {i \in SeqsUpTo(Ids, MaxData) : Len(i) >= 2}
       \/ /\ strip_p = SubmissionPrefix
          /\ strip_s = SubmissionSuffix
          /\ strip_ids = SubmissionIds
    /\ data = Batch(strip_p, strip_ids, strip_s)
    /\ remainders = <<>>
    /\ result = Pending
    /\ permuted = <<>>
    /\ result_permuted = Pending
    /\ possible_subseq = <<>>
    /\ seq = <<>>
    /\ find = <<>>
    /\ substr = Pending
    /\ lcs_i = 0
    /\ lcs_j = 0

\* the first pass
strip_first_pass ==
    /\ pc = "strip_call"
    /\ remainders' = strip_pass(data)
    /\ pc' = "strip_second"
    /\ UNCHANGED <<data, result, permuted, result_permuted, strip_p,
                   strip_ids, strip_s>>
    /\ UNCHANGED notBatch

\* the second pass, and the return of what is left
strip_second_pass ==
    /\ pc = "strip_second"
    /\ result' = List(strip_pass(remainders))
    /\ pc' = "strip_done"
    /\ UNCHANGED <<data, batchVars>>
    /\ UNCHANGED notBatch

NextStrip == strip_first_pass \/ strip_second_pass

SpecStrip == InitStrip /\ [][NextStrip]_vars

Stripped == pc = "strip_done"

CharsOf(t) == {t[k] : k \in 1..Len(t)}

\* the identifiers are not empty, no character of an identifier occurs in
\* P or in S, and no character occurs in all the identifiers
Distinctive ==
    /\ \A k \in 1..Len(strip_ids) :
          /\ strip_ids[k] # <<>>
          /\ CharsOf(strip_ids[k]) \cap CharsOf(strip_p \o strip_s) = {}
    /\ ~\E c \in IdAlphabet :
          \A k \in 1..Len(strip_ids) : c \in CharsOf(strip_ids[k])

IsSubmissionBatch == strip_ids = SubmissionIds

Threads == {"t1", "t2"}

Operations == {"get_label_value_from_filename", "filter_filenames_on_value",
               "is_subseq", "is_subseq_of_any", "get_longest_common_subseq"}

MaxRuns == 2

\* one frame of locals for all the calls: `fname_shortlist` and `substr`
\* as module-level names
frame_module_level(t) == "t1"

\* `fname_shortlist = []`, `substr = []`: the names are local, every call
\* binds them in a frame of its own
frame(t) == t

\* the shared arguments
sharedArgs == <<fname, fnames, label, value, has_period, possible_subseq,
                seq, find, data>>

ConcurrentFnames ==
    << Marker(hemisphere_label) \o Hemisphere_LEFT
           \o Marker(bundle_label) \o CS \o Underscore,
       Marker(hemisphere_label) \o Hemisphere_RIGHT
           \o Marker(bundle_label) \o CST \o Underscore >>

ConcurrentValues(lab) ==
    IF lab = "bundle" THEN {<<CS, CST>>, <<CST, CS>>, <<CS, CS>>}
    ELSE {<<Hemisphere_LEFT, Hemisphere_RIGHT>>, <<Hemisphere_RIGHT>>}

ConcurrentData ==
    { << <<"a", "b">>, <<"b", "a">> >>,
      << <<"a", "b", "a">>, <<"b", "a", "b">>, <<"a", "b">> >>,
      << <<"a", "b">> >> }

InitConcurrent ==
    /\ pc = "concurrent"
    /\ fnames = ConcurrentFnames
    /\ fname = fnames[1]
    /\ has_period = FALSE
    /\ label \in {"bundle", "hemisphere"}
    /\ value \in ConcurrentValues(label)
    /\ data \in ConcurrentData
    /\ find \in {<<"a">>, <<"b", "b">>}
    /\ possible_subseq = find
    /\ seq = data[1]
    /\ result = Pending
    /\ fname_shortlist = <<>>
    /\ idx = 0
    /\ substr = Pending
    /\ lcs_i = 0
    /\ lcs_j = 0
    /\ KeyIdle
    /\ FetchIdle
    /\ ReadIdle
    /\ BatchIdle
    /\ \E ops \in [Threads -> Operations] :
          threads = [t \in Threads |->
                        [op |-> ops[t], pc |-> "call", i |-> 0, j |-> 0,
                         result |-> Pending, prev |-> Pending, runs |-> 0,
                         overlapped |-> FALSE]]
    /\ locals = [t \in Threads |-> Pending]

notConc == <<pc, result, fname_shortlist, idx, substr, lcs_i, lcs_j,
             keyVars, fetchVars, fetchLog, readVars, batchVars>>

\* another caller is inside a loop
OtherInLoop(t) ==
    \E u \in Threads \ {t} : threads[u].pc \in {"filter_loop", "lcs_loop"}

Step(t, r) == [r EXCEPT !.overlapped = @ \/ OtherInLoop(t)]

Return(t, v) ==
    Step(t, [threads[t] EXCEPT !.result = v, !.pc = "done", !.runs = @ + 1])

\* a call of one of the operations that run in one step
concurrent_call(t) ==
    /\ threads[t].pc = "call"
    /\ threads[t].op \in {"get_label_value_from_filename", "is_subseq",
                          "is_subseq_of_any"}
    /\ LET v == CASE threads[t].op = "get_label_value_from_filename" ->
                       get_label_value_from_filename(fname, label, has_period)
                  [] threads[t].op = "is_subseq" ->
                       Bool(is_subseq(possible_subseq, seq))
                  [] threads[t].op = "is_subseq_of_any" ->
                       Bool(is_subseq_of_any(find, data))
       IN threads' = [threads EXCEPT ![t] = Return(t, v)]
    /\ UNCHANGED <<locals, sharedArgs, notConc>>

\* fname_shortlist = []
concurrent_filter_enter(t) ==
    /\ threads[t].pc = "call"
    /\ threads[t].op = "filter_filenames_on_value"
    /\ locals' = [locals EXCEPT ![frame(t)] = List(<<>>)]
    /\ threads' = [threads EXCEPT ![t] =
                      Step(t, [@ EXCEPT !.pc = "filter_loop", !.i = 1])]
    /\ UNCHANGED <<sharedArgs, notConc>>

\* one iteration of `for _value in value`: fname_shortlist.extend(shortlist)
concurrent_filter_iter(t) ==
    /\ threads[t].pc = "filter_loop"
    /\ threads[t].i <= Len(value)
    /\ LET label_value == filter_label_value(label, value[threads[t].i])
           shortlist == filter_list_on_list(fnames, <<label_value>>)
       IN locals' = [locals EXCEPT ![frame(t)] = List(@.val \o shortlist)]
    /\ threads' = [threads EXCEPT ![t] = Step(t, [@ EXCEPT !.i = @ + 1])]
    /\ UNCHANGED <<sharedArgs, notConc>>

\* return fname_shortlist
concurrent_filter_return(t) ==
    /\ threads[t].pc = "filter_loop"
    /\ threads[t].i > Len(value)
    /\ threads' = [threads EXCEPT ![t] = Return(t, locals[frame(t)])]
    /\ UNCHANGED <<locals, sharedArgs, notConc>>

\* substr = [] and the test that guards the loops
concurrent_lcs_enter(t) ==
    /\ threads[t].pc = "call"
    /\ threads[t].op = "get_longest_common_subseq"
    /\ locals' = [locals EXCEPT ![frame(t)] = List(<<>>)]
    /\ threads' = [threads EXCEPT ![t] =
                      Step(t, [@ EXCEPT !.i = 0, !.j = 0,
                                        !.pc = IF lcs_precondition(data)
                                               THEN "lcs_loop"
                                               ELSE "lcs_exit"])]
    /\ UNCHANGED <<sharedArgs, notConc>>

\* one pass through the body of the inner loop, and the step to the next
\* (i, j)
concurrent_lcs_iter(t) ==
    /\ threads[t].pc = "lcs_loop"
    /\ LET ii == threads[t].i
           jj == threads[t].j
           sub == locals[frame(t)]
       IN /\ locals' = [locals EXCEPT ![frame(t)] =
                           IF /\ is_longer(jj, sub)
                              /\ is_subseq_of_any(slice(data, ii, jj), data)
                           THEN Str(slice(data, ii, jj))
                           ELSE sub]
          /\ threads' = [threads EXCEPT ![t] =
                Step(t,
                     IF jj + 1 < inner_range(data, ii)
                     THEN [@ EXCEPT !.j = jj + 1]
                     ELSE [@ EXCEPT !.j = 0, !.i = ii + 1,
                                    !.pc = IF ii + 1 < Len(data[1])
                                           THEN "lcs_loop"
                                           ELSE "lcs_exit"])]
    /\ UNCHANGED <<sharedArgs, notConc>>

\* return substr
concurrent_lcs_return(t) ==
    /\ threads[t].pc = "lcs_exit"
    /\ threads' = [threads EXCEPT ![t] = Return(t, locals[frame(t)])]
    /\ UNCHANGED <<locals, sharedArgs, notConc>>

\* the caller repeats its call
concurrent_repeat(t) ==
    /\ threads[t].pc = "done"
    /\ threads[t].runs < MaxRuns
    /\ threads' = [threads EXCEPT ![t] =
                      [@ EXCEPT !.pc = "call", !.prev = threads[t].result,
                                !.result = Pending]]
    /\ UNCHANGED <<locals, sharedArgs, notConc>>

NextConcurrent ==
    \E t \in Threads :
        \/ concurrent_call(t)
        \/ concurrent_filter_enter(t)
        \/ concurrent_filter_iter(t)
        \/ concurrent_filter_return(t)
        \/ concurrent_lcs_enter(t)
        \/ concurrent_lcs_iter(t)
        \/ concurrent_lcs_return(t)
        \/ concurrent_repeat(t)

SpecConcurrent == InitConcurrent /\ [][NextConcurrent]_vars

\* the result of the operation called alone on the shared arguments
Alone(op) ==
    CASE op = "get_label_value_from_filename" ->
           get_label_value_from_filename(fname, label, has_period)
      [] op = "filter_filenames_on_value" ->
           filter_filenames_on_value(fnames, label, value)
      [] op = "is_subseq" -> Bool(is_subseq(possible_subseq, seq))
      [] op = "is_subseq_of_any" -> Bool(is_subseq_of_any(find, data))
      [] op = "get_longest_common_subseq" -> get_longest_common_subseq(data)

CallReturned(t) == threads[t].pc = "done"

ResultsAsAlone ==
    \A t \in Threads :
        CallReturned(t) =>
            /\ threads[t].result = Alone(threads[t].op)
            /\ threads[t].runs > 1 => threads[t].result = threads[t].prev

\* C23: no step of a call changes the shared arguments, and in every
\* interleaving of the calls of concurrent callers every call returns what
\* it returns run alone, a repeated call what it returned before.
C23_ConcurrentCallsAsAlone ==
    /\ [][sharedArgs' = sharedArgs]_vars
    /\ []ResultsAsAlone

\* a filter call and a miner call, each repeated, overlapped another call
\* in one of their steps and returned two files and a string of two
\* characters
C23_Witness ==
    /\ threads["t1"].op = "filter_filenames_on_value"
    /\ threads["t2"].op = "get_longest_common_subseq"
    /\ \A t \in Threads :
          /\ CallReturned(t)
          /\ threads[t].runs = MaxRuns
          /\ threads[t].overlapped
    /\ Len(threads["t1"].result.val) = 2
    /\ Len(threads["t2"].result.val) = 2

====
